---- MODULE Spec2Model ----
(***************************************************************************)
(* A state-machine model of the falling-sand simulation of src/src/lib.rs  *)
(* (with src/src/platform.rs, src/src/utils.rs and src/src/consts.rs).     *)
(*                                                                         *)
(* The grid is scaled down: LCD_COLUMNS x LCD_ROWS is the display size the *)
(* Playdate SDK fixes at 400 x 240; every derived constant (ROWS, COLUMNS, *)
(* PIXEL_WIDTH, BUFFER_SIZE) is computed from the two as the source does.  *)
(* Buffers are sequences; the byte the source calls buffer[i] is           *)
(* buffer[i + 1] here.                                                     *)
(***************************************************************************)
EXTENDS Integers, Sequences, FiniteSets, TLC

(***************************************************************************)
(* Bounds of the model.                                                    *)
(***************************************************************************)
LCD_COLUMNS == 5
LCD_ROWS == 8
MaxParticles == 2
MaxPasses == 2
MaxTicks == 2
NumPlatforms == 1

(***************************************************************************)
(* Program constants.                                                      *)
(***************************************************************************)
ROWS == LCD_ROWS
COLUMNS == 2 + (LCD_COLUMNS \div 8)
PIXEL_WIDTH == LCD_COLUMNS
BUFFER_SIZE == COLUMNS * ROWS
BIT_MASKS == <<128, 64, 32, 16, 8, 4, 2, 1>>
INV_BIT_MASKS == <<127, 191, 223, 239, 247, 251, 253, 254>>

VARIABLES
    sand_buffer,      \* FallingSand.sand_buffer: the particle plane
    platform_buffer,  \* FallingSand.platform_buffer: the obstacle plane
    velocity_buffer,  \* FallingSand.velocity_buffer
    game,             \* the other fields of FallingSand
    changed_rows,     \* the dirty-row mask of process_input
    frame,            \* the display's frame buffer (Graphics::get_frame)
    marked,           \* the row intervals handed to mark_updated_rows
    op,               \* the operation that produced this state and its inputs
    pre               \* the state the operation started from

vars == <<sand_buffer, platform_buffer, velocity_buffer, game, changed_rows,
          frame, marked, op, pre>>

(***************************************************************************)
(* Arithmetic helpers.                                                     *)
(***************************************************************************)
Abs(n) == IF n < 0 THEN -n ELSE n
Min(a, b) == IF a < b THEN a ELSE b
Max(a, b) == IF a > b THEN a ELSE b

\* The bitwise AND and OR of two bytes (the & and | of u8), bit by bit.
RECURSIVE AndBits(_, _)
AndBits(a, b) ==
    IF a = 0 \/ b = 0 THEN 0
    ELSE 2 * AndBits(a \div 2, b \div 2) + (IF a % 2 = 1 /\ b % 2 = 1 THEN 1 ELSE 0)

RECURSIVE OrBits(_, _)
OrBits(a, b) ==
    IF a = 0 THEN b
    ELSE IF b = 0 THEN a
    ELSE 2 * OrBits(a \div 2, b \div 2) + (IF a % 2 = 1 \/ b % 2 = 1 THEN 1 ELSE 0)

\* The same, with the masks of one bit and of all bits but one (BIT_MASKS,
\* INV_BIT_MASKS) decided by that bit of a alone.
BitAnd(a, b) ==
    IF b \in {1, 2, 4, 8, 16, 32, 64, 128}
    THEN ((a \div b) % 2) * b
    ELSE IF (255 - b) \in {1, 2, 4, 8, 16, 32, 64, 128}
    THEN a - ((a \div (255 - b)) % 2) * (255 - b)
    ELSE AndBits(a, b)

BitOr(a, b) ==
    IF b \in {1, 2, 4, 8, 16, 32, 64, 128}
    THEN a + (1 - ((a \div b) % 2)) * b
    ELSE OrBits(a, b)

\* u8::count_ones
RECURSIVE count_ones(_)
count_ones(b) == IF b = 0 THEN 0 ELSE (b % 2) + count_ones(b \div 2)

\* (f32::from(v) * num/10) as i8 for the factors 0.7 and 0.9: the product is
\* truncated toward zero by the cast. For every i8 v the f32 product of v and
\* the f32 nearest to 0.7 (0.9) rounds to the exact integer whenever v * 7 / 10
\* (v * 9 / 10) is one, so the truncated rational product is the cast's result.
ScaleKeeps(v, num) == v

ScaleTrunc(v, num) ==
    IF v >= 0 THEN (v * num) \div 10 ELSE -(((-v) * num) \div 10)

(***************************************************************************)
(* Bit-plane store.                                                        *)
(***************************************************************************)
SandVelocityDefault == [vx |-> 0, vy |-> 0]

clear_buffer(buffer) ==
    [i \in 1..Len(buffer) |-> IF i <= BUFFER_SIZE THEN 0 ELSE buffer[i]]

clear_velocity_buffer(buffer) ==
    [i \in 1..Len(buffer) |-> IF i <= BUFFER_SIZE THEN SandVelocityDefault ELSE buffer[i]]

get_pixel(buffer, x, y) ==
    IF x >= PIXEL_WIDTH \/ y >= ROWS THEN FALSE
    ELSE LET index == y * COLUMNS + (x \div 8) IN
         IF index >= Len(buffer) THEN FALSE
         ELSE BitAnd(buffer[index + 1], BIT_MASKS[(x % 8) + 1]) # 0

SetPixelSetsPaddingToo(buffer, x, y, value) ==
    IF y >= ROWS THEN buffer
    ELSE LET index == y * COLUMNS + (x \div 8) IN
         IF index >= Len(buffer) THEN buffer
         ELSE LET bit_idx == x % 8 IN
              IF value
              THEN [buffer EXCEPT ![index + 1] = BitOr(@, BIT_MASKS[bit_idx + 1])]
              ELSE [buffer EXCEPT ![index + 1] = BitAnd(@, INV_BIT_MASKS[bit_idx + 1])]

SetPixelClearsByte(buffer, x, y, value) ==
    IF x >= PIXEL_WIDTH \/ y >= ROWS THEN buffer
    ELSE LET index == y * COLUMNS + (x \div 8) IN
         IF index >= Len(buffer) THEN buffer
         ELSE LET bit_idx == x % 8 IN
              IF value
              THEN [buffer EXCEPT ![index + 1] = BitOr(@, BIT_MASKS[bit_idx + 1])]
              ELSE [buffer EXCEPT ![index + 1] = BitAnd(@, BIT_MASKS[bit_idx + 1])]

set_pixel(buffer, x, y, value) ==
    IF x >= PIXEL_WIDTH \/ y >= ROWS THEN buffer
    ELSE LET index == y * COLUMNS + (x \div 8) IN
         IF index >= Len(buffer) THEN buffer
         ELSE LET bit_idx == x % 8 IN
              IF value
              THEN [buffer EXCEPT ![index + 1] = BitOr(@, BIT_MASKS[bit_idx + 1])]
              ELSE [buffer EXCEPT ![index + 1] = BitAnd(@, INV_BIT_MASKS[bit_idx + 1])]

get_velocity(buffer, x, y) ==
    IF x >= PIXEL_WIDTH \/ y >= ROWS THEN SandVelocityDefault
    ELSE LET index == y * PIXEL_WIDTH + x IN
         IF index >= Len(buffer) THEN SandVelocityDefault
         ELSE buffer[index + 1]

set_velocity(buffer, x, y, velocity) ==
    IF x >= PIXEL_WIDTH \/ y >= ROWS THEN buffer
    ELSE LET index == y * PIXEL_WIDTH + x IN
         IF index >= Len(buffer) THEN buffer
         ELSE [buffer EXCEPT ![index + 1] = velocity]

is_platform(pbuf, x, y) == get_pixel(pbuf, x, y)

is_sand(sbuf, x, y) == get_pixel(sbuf, x, y)

IsSolidIgnoresPlatforms(sbuf, pbuf, x, y) == is_sand(sbuf, x, y)

is_solid(sbuf, pbuf, x, y) == is_sand(sbuf, x, y) \/ is_platform(pbuf, x, y)

(***************************************************************************)
(* Automaton engine.  The buffers a pass mutates travel together as a      *)
(* record [sand, vel, rows]: sand_buffer, velocity_buffer, changed_rows.   *)
(***************************************************************************)
MarkRow(rows, y) == [rows EXCEPT ![y + 1] = TRUE]

\* A relocation as every branch writes it: clear the source bit, set the
\* destination bit, clear the source velocity, store `velocity` at the
\* destination.
MoveKeepsSource(st, x, y, tx, ty, velocity) ==
    [st EXCEPT
        !.sand = set_pixel(st.sand, tx, ty, TRUE),
        !.vel = set_velocity(set_velocity(st.vel, x, y, SandVelocityDefault),
                             tx, ty, velocity)]

MoveTo(st, x, y, tx, ty, velocity) ==
    [st EXCEPT
        !.sand = set_pixel(set_pixel(st.sand, x, y, FALSE), tx, ty, TRUE),
        !.vel = set_velocity(set_velocity(st.vel, x, y, SandVelocityDefault),
                             tx, ty, velocity)]

\* update_pixel_with_velocity: the gravity rule for the cell (x, y); the
\* result is the buffers after it and the bool the function returns.
FallIgnoresLastRow(st, pbuf, x, y) ==
    IF ~is_sand(st.sand, x, y) THEN [st |-> st, fell |-> FALSE]
    ELSE IF ~is_solid(st.sand, pbuf, x, y + 1)
    THEN [st |-> MoveTo(st, x, y, x, y + 1, get_velocity(st.vel, x, y)),
          fell |-> TRUE]
    ELSE IF x > 0 /\ ~is_solid(st.sand, pbuf, x - 1, y + 1)
    THEN LET v0 == get_velocity(st.vel, x, y) IN
         [st |-> MoveTo(st, x, y, x - 1, y + 1, [v0 EXCEPT !.vx = Max(v0.vx - 1, -10)]),
          fell |-> TRUE]
    ELSE IF x < PIXEL_WIDTH - 1 /\ ~is_solid(st.sand, pbuf, x + 1, y + 1)
    THEN LET v0 == get_velocity(st.vel, x, y) IN
         [st |-> MoveTo(st, x, y, x + 1, y + 1, [v0 EXCEPT !.vx = Min(v0.vx + 1, 10)]),
          fell |-> TRUE]
    ELSE [st |-> st, fell |-> FALSE]

FallPrefersLeft(st, pbuf, x, y) ==
    IF ~is_sand(st.sand, x, y) THEN [st |-> st, fell |-> FALSE]
    ELSE IF y >= ROWS - 1 THEN [st |-> st, fell |-> FALSE]
    ELSE IF x > 0 /\ ~is_solid(st.sand, pbuf, x - 1, y + 1)
    THEN LET v0 == get_velocity(st.vel, x, y) IN
         [st |-> MoveTo(st, x, y, x - 1, y + 1, [v0 EXCEPT !.vx = Max(v0.vx - 1, -10)]),
          fell |-> TRUE]
    ELSE IF ~is_solid(st.sand, pbuf, x, y + 1)
    THEN [st |-> MoveTo(st, x, y, x, y + 1, get_velocity(st.vel, x, y)),
          fell |-> TRUE]
    ELSE IF x < PIXEL_WIDTH - 1 /\ ~is_solid(st.sand, pbuf, x + 1, y + 1)
    THEN LET v0 == get_velocity(st.vel, x, y) IN
         [st |-> MoveTo(st, x, y, x + 1, y + 1, [v0 EXCEPT !.vx = Min(v0.vx + 1, 10)]),
          fell |-> TRUE]
    ELSE [st |-> st, fell |-> FALSE]

update_pixel_with_velocity(st, pbuf, x, y) ==
    IF ~is_sand(st.sand, x, y) THEN [st |-> st, fell |-> FALSE]
    ELSE IF y >= ROWS - 1 THEN [st |-> st, fell |-> FALSE]
    ELSE IF ~is_solid(st.sand, pbuf, x, y + 1)
    THEN \* move down, transfer the velocity
         [st |-> MoveTo(st, x, y, x, y + 1, get_velocity(st.vel, x, y)),
          fell |-> TRUE]
    ELSE IF x > 0 /\ ~is_solid(st.sand, pbuf, x - 1, y + 1)
    THEN \* move down-left, leftward bias
         LET v0 == get_velocity(st.vel, x, y) IN
         [st |-> MoveTo(st, x, y, x - 1, y + 1, [v0 EXCEPT !.vx = Max(v0.vx - 1, -10)]),
          fell |-> TRUE]
    ELSE IF x < PIXEL_WIDTH - 1 /\ ~is_solid(st.sand, pbuf, x + 1, y + 1)
    THEN \* move down-right, rightward bias
         LET v0 == get_velocity(st.vel, x, y) IN
         [st |-> MoveTo(st, x, y, x + 1, y + 1, [v0 EXCEPT !.vx = Min(v0.vx + 1, 10)]),
          fell |-> TRUE]
    ELSE [st |-> st, fell |-> FALSE]

\* The body of the loops of update_sand_with_velocity for an occupied
\* cell (x, y): horizontal velocity, then gravity, then decay.
OccupiedCell(st, pbuf, x, y) ==
    LET v0 == get_velocity(st.vel, x, y)
        target_x == IF v0.vx > 0
                    THEN (IF x + 1 < PIXEL_WIDTH THEN x + 1 ELSE x)
                    ELSE (IF x > 0 THEN x - 1 ELSE x)
        moved == /\ Abs(v0.vx) > 2
                 /\ target_x # x
                 /\ ~is_solid(st.sand, pbuf, target_x, y)
        \* the local `velocity` after the horizontal branch
        v1 == IF moved THEN [v0 EXCEPT !.vx = ScaleTrunc(v0.vx, 7)] ELSE v0
        afterH == IF moved
                  THEN [MoveTo(st, x, y, target_x, y, v1)
                            EXCEPT !.rows = MarkRow(st.rows, y)]
                  ELSE st
        afterG == IF ~moved
                  THEN LET r == update_pixel_with_velocity(afterH, pbuf, x, y) IN
                       IF r.fell THEN [r.st EXCEPT !.rows = MarkRow(r.st.rows, y)]
                       ELSE r.st
                  ELSE afterH
    IN  \* velocity decay, written back to (x, y)
        IF Abs(v1.vx) > 0 \/ Abs(v1.vy) > 0
        THEN [afterG EXCEPT !.vel =
                 set_velocity(afterG.vel, x, y,
                              [vx |-> ScaleTrunc(v1.vx, 9), vy |-> ScaleTrunc(v1.vy, 9)])]
        ELSE afterG

\* One iteration of the loops of update_sand_with_velocity: cells without
\* sand are skipped.
SandCellNoSkip(st, pbuf, x, y) == OccupiedCell(st, pbuf, x, y)

SandCell(st, pbuf, x, y) ==
    IF ~is_sand(st.sand, x, y) THEN st
    ELSE OccupiedCell(st, pbuf, x, y)

\* The rows a pass visits, in order: for y in (0..ROWS).rev()
ScanRows == [i \in 1..ROWS |-> ROWS - i]

\* The cells of row y from column x on: for x in 0..PIXEL_WIDTH.  (Here
\* and in the other loops, the one-element sets make TLC compute each
\* step's result before the next step starts; the value is
\* ScanRow(SandCell(st, pbuf, x, y), ...).)
RECURSIVE ScanRow(_, _, _, _)
ScanRow(st, pbuf, x, y) ==
    IF x >= PIXEL_WIDTH THEN st
    ELSE CHOOSE r \in {ScanRow(nx, pbuf, x + 1, y) :
                         nx \in {SandCell(st, pbuf, x, y)}} : TRUE

RECURSIVE ScanFrom(_, _, _)
ScanFrom(st, pbuf, i) ==
    IF i > Len(ScanRows) THEN st
    ELSE CHOOSE r \in {ScanFrom(nx, pbuf, i + 1) :
                         nx \in {ScanRow(st, pbuf, 0, ScanRows[i])}} : TRUE

update_sand_with_velocity(st, pbuf) == ScanFrom(st, pbuf, 1)

(***************************************************************************)
(* Frame composer and dirty-region tracker.                                *)
(***************************************************************************)
CopyAndsPlanes(sbuf, pbuf, fr) ==
    LET copy_len == Min(Min(Min(BUFFER_SIZE, Len(fr)), Len(sbuf)), Len(pbuf)) IN
    [i \in 1..Len(fr) |->
        IF i <= copy_len THEN BitAnd(sbuf[i], pbuf[i]) ELSE fr[i]]

copy_to_frame(sbuf, pbuf, fr) ==
    LET copy_len == Min(Min(Min(BUFFER_SIZE, Len(fr)), Len(sbuf)), Len(pbuf)) IN
    [i \in 1..Len(fr) |->
        IF i <= copy_len THEN BitOr(sbuf[i], pbuf[i]) ELSE fr[i]]

\* The loop of update_screen_efficiently from row y on; batch_start is <<>>
\* for None and <<start>> for Some(start); calls are the mark_updated_rows
\* calls made so far, each <<start, end>>.
RECURSIVE FlushForgetsOpenRun(_, _, _, _)
FlushForgetsOpenRun(rows, y, batch_start, calls) ==
    IF y >= Len(rows) THEN calls
    ELSE IF rows[y + 1] /\ batch_start = <<>>
    THEN FlushForgetsOpenRun(rows, y + 1, <<y>>, calls)
    ELSE IF ~rows[y + 1] /\ batch_start # <<>>
    THEN FlushForgetsOpenRun(rows, y + 1, <<>>, Append(calls, <<batch_start[1], y>>))
    ELSE FlushForgetsOpenRun(rows, y + 1, batch_start, calls)

RECURSIVE FlushFrom(_, _, _, _)
FlushFrom(rows, y, batch_start, calls) ==
    IF y >= Len(rows)
    THEN (IF batch_start # <<>> THEN Append(calls, <<batch_start[1], ROWS>>) ELSE calls)
    ELSE IF rows[y + 1] /\ batch_start = <<>>
    THEN FlushFrom(rows, y + 1, <<y>>, calls)
    ELSE IF ~rows[y + 1] /\ batch_start # <<>>
    THEN FlushFrom(rows, y + 1, <<>>, Append(calls, <<batch_start[1], y>>))
    ELSE FlushFrom(rows, y + 1, batch_start, calls)

UpdateScreenForgetsOpenRun(rows) == FlushForgetsOpenRun(rows, 0, <<>>, <<>>)

\* update_screen_efficiently: the intervals handed to mark_updated_rows.
update_screen_efficiently(rows) == FlushFrom(rows, 0, <<>>, <<>>)

(***************************************************************************)
(* Platform subsystem.  The f32 sine and cosine are fixed-point values     *)
(* over TrigScale; on the angles the model samples, the rounded line       *)
(* points and the truncated velocities computed from them are those of the *)
(* f32 arithmetic of the source.                                           *)
(***************************************************************************)
TrigScale == 100000

\* sin of 0..90 degrees, times TrigScale, rounded.
SinTable ==
    <<0, 1745, 3490, 5234, 6976, 8716, 10453, 12187, 13917, 15643,
      17365, 19081, 20791, 22495, 24192, 25882, 27564, 29237, 30902, 32557,
      34202, 35837, 37461, 39073, 40674, 42262, 43837, 45399, 46947, 48481,
      50000, 51504, 52992, 54464, 55919, 57358, 58779, 60182, 61566, 62932,
      64279, 65606, 66913, 68200, 69466, 70711, 71934, 73135, 74314, 75471,
      76604, 77715, 78801, 79864, 80902, 81915, 82904, 83867, 84805, 85717,
      86603, 87462, 88295, 89101, 89879, 90631, 91355, 92050, 92718, 93358,
      93969, 94552, 95106, 95630, 96126, 96593, 97030, 97437, 97815, 98163,
      98481, 98769, 99027, 99255, 99452, 99619, 99756, 99863, 99939, 99985,
      100000>>

fast_sin(angle_degrees) ==
    LET angle == angle_degrees % 360 IN
    IF angle <= 90 THEN SinTable[angle + 1]
    ELSE IF angle <= 180 THEN SinTable[180 - angle + 1]
    ELSE IF angle <= 270 THEN -SinTable[angle - 180 + 1]
    ELSE -SinTable[360 - angle + 1]

fast_cos(angle_degrees) == fast_sin(angle_degrees + 90)

\* The % of i32: the remainder has the sign of the dividend.
Rem(a, b) ==
    LET m == a % b IN IF a >= 0 \/ m = 0 THEN m ELSE m - b

\* The / of i32 and the `as` cast of a float: truncation toward zero.
TruncDiv(a, b) == IF a >= 0 THEN a \div b ELSE -((-a) \div b)

\* libm::roundf of n / TrigScale: to the nearest integer, halves away from
\* zero.
RoundScaled(n) ==
    IF n >= 0 THEN (n + TrigScale \div 2) \div TrigScale
    ELSE -((-n + TrigScale \div 2) \div TrigScale)

PlatformNew(x, y, angle) == [x |-> x, y |-> y, angle |-> angle, prev_angle |-> angle]

\* The + of i32 where overflow checks are off (a release build): the sum
\* modulo 2^32.  (With overflow checks on, the addition panics instead.)
I32Max == 2147483647
I32Min == -I32Max - 1

WrappingAdd(a, b) ==
    IF a > 0 /\ b > I32Max - a THEN ((b - I32Max) + a - 1) + I32Min
    ELSE IF a < 0 /\ b < I32Min - a THEN ((b - I32Min) + a + 1) + I32Max
    ELSE a + b

update_angle(platform, delta) ==
    LET angle == Rem(WrappingAdd(platform.angle, delta), 360) IN
    [platform EXCEPT !.prev_angle = platform.angle,
                     !.angle = IF angle < 0 THEN angle + 360 ELSE angle]

RotationDeltaUnwrapped(platform) == platform.angle - platform.prev_angle

rotation_delta(platform) ==
    LET d0 == platform.angle - platform.prev_angle
        d1 == IF d0 > 180 THEN d0 - 360 ELSE d0
    IN IF d1 < -180 THEN d1 + 360 ELSE d1

\* The k-th point of the line both draw_platform and apply_platform_forces
\* walk from the platform's anchor: <<pixel_x, pixel_y>>.
LinePoint(platform, k) ==
    <<RoundScaled(platform.x * TrigScale + k * fast_cos(platform.angle)),
      RoundScaled(platform.y * TrigScale + k * fast_sin(platform.angle))>>

\* One step of the loop of draw_platform: the pixel and its right, lower
\* and lower-right neighbours.
DrawPoint(buffer, pt) ==
    LET pixel_x == pt[1]
        pixel_y == pt[2]
    IN IF pixel_x >= 0 /\ pixel_y >= 0 /\ pixel_x < PIXEL_WIDTH /\ pixel_y < ROWS
       THEN LET b1 == set_pixel(buffer, pixel_x, pixel_y, TRUE)
                b2 == IF pixel_x + 1 >= 0 /\ pixel_x + 1 < PIXEL_WIDTH
                      THEN set_pixel(b1, pixel_x + 1, pixel_y, TRUE) ELSE b1
                b3 == IF pixel_y + 1 >= 0 /\ pixel_y + 1 < ROWS
                      THEN set_pixel(b2, pixel_x, pixel_y + 1, TRUE) ELSE b2
            IN IF pixel_x + 1 >= 0 /\ pixel_y + 1 >= 0
                  /\ pixel_x + 1 < PIXEL_WIDTH /\ pixel_y + 1 < ROWS
               THEN set_pixel(b3, pixel_x + 1, pixel_y + 1, TRUE) ELSE b3
       ELSE buffer

\* platform_length of draw_platform and of apply_platform_forces, and
\* force_radius.
DrawLength == 25
ForceLength == 30
force_radius == 8

RECURSIVE DrawFrom(_, _, _)
DrawFrom(buffer, platform, k) ==
    IF k >= DrawLength THEN buffer
    ELSE CHOOSE r \in {DrawFrom(nb, platform, k + 1) :
                         nb \in {DrawPoint(buffer, LinePoint(platform, k))}} : TRUE

draw_platform(buffer, platform) == DrawFrom(buffer, platform, 0)

\* The display size the coordinates written in the source refer to, and
\* the scaling of such a coordinate to the grid of the model.
SourceColumns == 400
SourceRows == 240
ScaleX(v) == (v * PIXEL_WIDTH) \div SourceColumns
ScaleY(v) == (v * ROWS) \div SourceRows

\* for x in from..to { set_pixel(buffer, x, y, true) }
RECURSIVE SetSegment(_, _, _, _)
SetSegment(buffer, from, to, y) ==
    IF from >= to THEN buffer
    ELSE CHOOSE r \in {SetSegment(nb, from + 1, to, y) :
                         nb \in {set_pixel(buffer, from, y, TRUE)}} : TRUE

RECURSIVE DrawAll(_, _, _)
DrawAll(buffer, platforms, i) ==
    IF i > Len(platforms) THEN buffer
    ELSE CHOOSE r \in {DrawAll(nb, platforms, i + 1) :
                         nb \in {draw_platform(buffer, platforms[i])}} : TRUE

redraw_platforms(buffer, platforms) ==
    LET b0 == clear_buffer(buffer)
        b1 == SetSegment(b0, ScaleX(50), ScaleX(350), ScaleY(SourceRows - 20))
        b2 == SetSegment(b1, ScaleX(80), ScaleX(200), ScaleY(SourceRows - 60))
        b3 == SetSegment(b2, ScaleX(250), ScaleX(370), ScaleY(SourceRows - 80))
        b4 == SetSegment(b3, ScaleX(150), ScaleX(300), ScaleY(SourceRows - 120))
    IN DrawAll(b4, platforms, 1)

\* The velocity apply_platform_forces stores for a particle with velocity v
\* at offset (dx, dy) from a line point: the impulse is the perpendicular
\* of the line times rotation_delta * force_strength * 0.1, the sum is
\* clamped to [-20, 20] and cast to i8.
PushedUnclamped(v, platform, dx, dy) ==
    LET dist_sq == dx * dx + dy * dy
        force_strength == (force_radius * force_radius - dist_sq) \div 4
        unit == TrigScale * 10
        perpendicular_x == (-fast_sin(platform.angle)) * rotation_delta(platform)
                               * force_strength
        perpendicular_y == fast_cos(platform.angle) * rotation_delta(platform)
                               * force_strength
    IN [vx |-> TruncDiv(v.vx * unit + perpendicular_x, unit),
        vy |-> TruncDiv(v.vy * unit + perpendicular_y, unit)]

PushedAgainst(v, platform, dx, dy) ==
    LET dist_sq == dx * dx + dy * dy
        force_strength == (force_radius * force_radius - dist_sq) \div 4
        unit == TrigScale * 10
        clamp(t) == Max(-20 * unit, Min(20 * unit, t))
        perpendicular_x == fast_sin(platform.angle) * rotation_delta(platform)
                               * force_strength
        perpendicular_y == (-fast_cos(platform.angle)) * rotation_delta(platform)
                               * force_strength
    IN [vx |-> TruncDiv(clamp(v.vx * unit + perpendicular_x), unit),
        vy |-> TruncDiv(clamp(v.vy * unit + perpendicular_y), unit)]

Pushed(v, platform, dx, dy) ==
    LET dist_sq == dx * dx + dy * dy
        force_strength == (force_radius * force_radius - dist_sq) \div 4
        unit == TrigScale * 10
        clamp(t) == Max(-20 * unit, Min(20 * unit, t))
        perpendicular_x == (-fast_sin(platform.angle)) * rotation_delta(platform)
                               * force_strength
        perpendicular_y == fast_cos(platform.angle) * rotation_delta(platform)
                               * force_strength
    IN [vx |-> TruncDiv(clamp(v.vx * unit + perpendicular_x), unit),
        vy |-> TruncDiv(clamp(v.vy * unit + perpendicular_y), unit)]

\* The dy and dx loops of apply_platform_forces around the line point pt,
\* for the cell (sand_x, sand_y) whose velocity is v.
ForcePoint(sbuf, v, platform, pt, sand_x, sand_y) ==
    LET dx == sand_x - pt[1]
        dy == sand_y - pt[2]
    IN IF /\ pt[1] >= 0 /\ pt[2] >= 0 /\ pt[1] < PIXEL_WIDTH /\ pt[2] < ROWS
          /\ dx >= -force_radius /\ dx < force_radius
          /\ dy >= -force_radius /\ dy < force_radius
          /\ sand_x < PIXEL_WIDTH /\ sand_y < ROWS
          /\ dx * dx + dy * dy <= force_radius * force_radius
          /\ is_sand(sbuf, sand_x, sand_y)
       THEN Pushed(v, platform, dx, dy)
       ELSE v

\* The points of the line apply_platform_forces walks, in order, without
\* those outside the grid (the loop skips them).
ForcePoints(platform) ==
    SelectSeq([k \in 1..ForceLength |-> LinePoint(platform, k - 1)],
              LAMBDA pt : pt[1] >= 0 /\ pt[2] >= 0 /\ pt[1] < PIXEL_WIDTH /\ pt[2] < ROWS)

\* The loop over the line points from the k-th on, for one cell (no cell's
\* impulse depends on another cell's velocity).
RECURSIVE ForceFrom(_, _, _, _, _, _, _)
ForceFrom(sbuf, v, platform, points, sand_x, sand_y, k) ==
    IF k > Len(points) THEN v
    ELSE CHOOSE r \in {ForceFrom(sbuf, nv, platform, points, sand_x, sand_y, k + 1) :
                         nv \in {ForcePoint(sbuf, v, platform, points[k],
                                            sand_x, sand_y)}} : TRUE

\* The body of the platform loop of apply_platform_forces.  (<<>> \o f is
\* the sequence f, stored element by element.)
ForcePlatform(sbuf, vbuf, platform) ==
    IF Abs(rotation_delta(platform)) < 1 THEN vbuf
    ELSE LET points == ForcePoints(platform) IN
         <<>> \o [i \in 1..Len(vbuf) |->
             \* a cell without sand is pushed at no line point
             IF is_sand(sbuf, (i - 1) % PIXEL_WIDTH, (i - 1) \div PIXEL_WIDTH)
             THEN ForceFrom(sbuf, vbuf[i], platform, points,
                            (i - 1) % PIXEL_WIDTH, (i - 1) \div PIXEL_WIDTH, 1)
             ELSE vbuf[i]]

RECURSIVE ForceAll(_, _, _, _)
ForceAll(sbuf, vbuf, platforms, i) ==
    IF i > Len(platforms) THEN vbuf
    ELSE CHOOSE r \in {ForceAll(sbuf, nv, platforms, i + 1) :
                         nv \in {ForcePlatform(sbuf, vbuf, platforms[i])}} : TRUE

apply_platform_forces(sbuf, vbuf, platforms) == ForceAll(sbuf, vbuf, platforms, 1)

(***************************************************************************)
(* Density sampler and performance controller.                             *)
(***************************************************************************)
RECURSIVE SampleFrom(_, _)
SampleFrom(buffer, i) ==
    IF i >= Len(buffer) THEN 0
    ELSE (IF buffer[i + 1] # 0 THEN count_ones(buffer[i + 1]) ELSE 0)
         + SampleFrom(buffer, i + 8)

calculate_screen_density(sbuf) ==
    Min((SampleFrom(sbuf, 0) * 100) \div ((Len(sbuf) \div 8) * 8), 100)

StepsThreeWhenSparse(screen_density) ==
    IF screen_density <= 25 THEN 3
    ELSE IF screen_density <= 50 THEN 2
    ELSE IF screen_density <= 75 THEN 1
    ELSE 1

\* The match on game.screen_density of process_input.
StepsFor(screen_density) ==
    IF screen_density <= 25 THEN 2
    ELSE IF screen_density <= 50 THEN 2
    ELSE IF screen_density <= 75 THEN 1
    ELSE 1

\* for _ in 0..steps { update_sand_with_velocity(...) }
RECURSIVE RunPasses(_, _, _)
RunPasses(st, pbuf, steps) ==
    IF steps <= 0 THEN st
    ELSE CHOOSE r \in {RunPasses(nx, pbuf, steps - 1) :
                         nx \in {update_sand_with_velocity(st, pbuf)}} : TRUE

(***************************************************************************)
(* Sampled inputs: the planes and velocity fields the automaton is run on. *)
(***************************************************************************)
Cells == (0..(PIXEL_WIDTH - 1)) \X (0..(ROWS - 1))

\* The sampled particles lie in the three bottom rows, the sampled
\* obstacles in the two bottom rows.
ParticleCells == {c \in Cells : c[2] >= ROWS - 3}
ObstacleCells == {c \in Cells : c[2] >= ROWS - 2}

ZeroPlane == [i \in 1..BUFFER_SIZE |-> 0]
ZeroVelocity == [i \in 1..(PIXEL_WIDTH * ROWS) |-> SandVelocityDefault]
NoRows == [i \in 1..ROWS |-> FALSE]

\* The plane with exactly the cells of S set.
RECURSIVE PlaneOf(_)
PlaneOf(S) ==
    IF S = {} THEN ZeroPlane
    ELSE LET c == CHOOSE c \in S : TRUE IN
         set_pixel(PlaneOf(S \ {c}), c[1], c[2], TRUE)

\* Sampled velocity fields: one velocity on the even columns, one on the
\* odd columns, at every cell (occupied or not).
VelStill == [vx |-> 0, vy |-> 0]
VelRight == [vx |-> 5, vy |-> -4]
VelLeft == [vx |-> -20, vy |-> 20]
VelPairs == {<<VelStill, VelStill>>, <<VelLeft, VelLeft>>,
             <<VelRight, VelLeft>>, <<VelStill, VelRight>>}

FieldOf(pair) ==
    [i \in 1..(PIXEL_WIDTH * ROWS) |-> pair[(((i - 1) % PIXEL_WIDTH) % 2) + 1]]

ParticleSets == {P \in SUBSET ParticleCells : Cardinality(P) <= MaxParticles}
ObstacleSets == {O \in SUBSET ObstacleCells : Cardinality(O) <= 1}

Snapshot == [sand |-> sand_buffer, platform |-> platform_buffer,
             vel |-> velocity_buffer, rows |-> changed_rows,
             frame |-> frame, marked |-> marked]

\* FallingSand::new without its platforms (the specifications of single
\* operations do not use them).
GameIdle == [started |-> FALSE, position_x |-> PIXEL_WIDTH \div 2,
             position_y |-> ROWS \div 4, frame_counter |-> 0,
             screen_density |-> 0, platforms |-> <<>>]

InitOp == [name |-> "init", x |-> 0, y |-> 0, value |-> FALSE, ret |-> FALSE,
           n |-> 0, forced |-> {}, clear |-> FALSE, steps |-> 0]

\* Any sampled particle plane, obstacle plane and velocity field.
InitPlanes ==
    \E P \in ParticleSets, O \in ObstacleSets, pair \in VelPairs :
        /\ sand_buffer = PlaneOf(P)
        /\ platform_buffer = PlaneOf(O)
        /\ velocity_buffer = FieldOf(pair)
        /\ game = GameIdle
        /\ changed_rows = NoRows
        /\ frame = ZeroPlane
        /\ marked = <<>>
        /\ op = InitOp
        /\ pre = [sand |-> PlaneOf(P), platform |-> PlaneOf(O),
                  vel |-> FieldOf(pair), rows |-> NoRows,
                  frame |-> ZeroPlane, marked |-> <<>>]

(***************************************************************************)
(* SpecPass: automaton passes over the sampled planes.                     *)
(***************************************************************************)
PassStep ==
    /\ op.n < MaxPasses
    /\ \E r \in {update_sand_with_velocity(
                 [sand |-> sand_buffer, vel |-> velocity_buffer, rows |-> changed_rows],
                 platform_buffer)} :
          /\ sand_buffer' = r.sand
          /\ velocity_buffer' = r.vel
          /\ changed_rows' = r.rows
          /\ op' = [InitOp EXCEPT !.name = "pass", !.n = op.n + 1]
          /\ pre' = Snapshot
          /\ UNCHANGED <<platform_buffer, game, frame, marked>>

NextPass == PassStep

SpecPass == InitPlanes /\ [][NextPass]_vars

(***************************************************************************)
(* SpecCell: the loop body of a pass applied to one cell of a sampled      *)
(* plane.                                                                  *)
(***************************************************************************)
CellStep(x, y) ==
    /\ op.name = "init"
    /\ \E r \in {SandCell(
                 [sand |-> sand_buffer, vel |-> velocity_buffer, rows |-> changed_rows],
                 platform_buffer, x, y)} :
          /\ sand_buffer' = r.sand
          /\ velocity_buffer' = r.vel
          /\ changed_rows' = r.rows
          /\ op' = [InitOp EXCEPT !.name = "cell", !.x = x, !.y = y]
          /\ pre' = Snapshot
          /\ UNCHANGED <<platform_buffer, game, frame, marked>>

NextCell == \E c \in Cells : CellStep(c[1], c[2])

SpecCell == InitPlanes /\ [][NextCell]_vars

(***************************************************************************)
(* SpecScan: one automaton pass over planes whose particles each carry a   *)
(* velocity of their own; the cells without a particle hold the default    *)
(* velocity, as after clear_velocity_buffer.  The obstacles are up to two  *)
(* cells of one row.                                                       *)
(***************************************************************************)
VelSamples == {VelStill, VelRight, VelLeft}

ObstacleRows == {O \in SUBSET ObstacleCells :
                    /\ Cardinality(O) <= 2
                    /\ \A a, b \in O : a[2] = b[2]}

\* The velocity field holding f[c] at every cell c of P.
FieldAt(P, f) ==
    [i \in 1..(PIXEL_WIDTH * ROWS) |->
        LET c == <<(i - 1) % PIXEL_WIDTH, (i - 1) \div PIXEL_WIDTH>> IN
        IF c \in P THEN f[c] ELSE SandVelocityDefault]

InitScan ==
    \E P \in ParticleSets, O \in ObstacleRows :
        \E f \in [P -> VelSamples] :
            /\ sand_buffer = PlaneOf(P)
            /\ platform_buffer = PlaneOf(O)
            /\ velocity_buffer = FieldAt(P, f)
            /\ game = GameIdle
            /\ changed_rows = NoRows
            /\ frame = ZeroPlane
            /\ marked = <<>>
            /\ op = InitOp
            /\ pre = [sand |-> PlaneOf(P), platform |-> PlaneOf(O),
                      vel |-> FieldAt(P, f), rows |-> NoRows,
                      frame |-> ZeroPlane, marked |-> <<>>]

ScanStep ==
    /\ op.name = "init"
    /\ PassStep

NextScan == ScanStep

SpecScan == InitScan /\ [][NextScan]_vars

(***************************************************************************)
(* SpecPixel: get_pixel and set_pixel on sampled planes, at coordinates    *)
(* inside the grid, in the padding of the row stride and beyond.           *)
(***************************************************************************)
ByteSamples == {0, 255, 165, 90}

\* The buffer of length len with byte a at the even indices and byte b at
\* the odd ones.
BufferOf(a, b, len) == [i \in 1..len |-> IF (i - 1) % 2 = 0 THEN a ELSE b]

CoordXs == 0..(COLUMNS * 8 + 1)
CoordYs == 0..(ROWS + 1)

InitPixel ==
    \E a \in ByteSamples, b \in ByteSamples :
        /\ sand_buffer = BufferOf(a, b, BUFFER_SIZE)
        /\ platform_buffer = ZeroPlane
        /\ velocity_buffer = ZeroVelocity
        /\ game = GameIdle
        /\ changed_rows = NoRows
        /\ frame = ZeroPlane
        /\ marked = <<>>
        /\ op = InitOp
        /\ pre = [sand |-> BufferOf(a, b, BUFFER_SIZE), platform |-> ZeroPlane,
                  vel |-> ZeroVelocity, rows |-> NoRows,
                  frame |-> ZeroPlane, marked |-> <<>>]

SetPixelStep(x, y, value) ==
    /\ op.name = "init"
    /\ sand_buffer' = set_pixel(sand_buffer, x, y, value)
    /\ op' = [InitOp EXCEPT !.name = "set_pixel", !.x = x, !.y = y, !.value = value]
    /\ pre' = Snapshot
    /\ UNCHANGED <<platform_buffer, velocity_buffer, game, changed_rows, frame, marked>>

GetPixelStep(x, y) ==
    /\ op.name = "init"
    /\ op' = [InitOp EXCEPT !.name = "get_pixel", !.x = x, !.y = y,
                            !.ret = get_pixel(sand_buffer, x, y)]
    /\ pre' = Snapshot
    /\ UNCHANGED <<sand_buffer, platform_buffer, velocity_buffer, game,
                   changed_rows, frame, marked>>

NextPixel ==
    \/ \E x \in CoordXs, y \in CoordYs, value \in BOOLEAN : SetPixelStep(x, y, value)
    \/ \E x \in CoordXs, y \in CoordYs : GetPixelStep(x, y)

SpecPixel == InitPixel /\ [][NextPixel]_vars

(***************************************************************************)
(* SpecDirty: update_screen_efficiently on every dirty-row mask.           *)
(***************************************************************************)
InitDirty ==
    \E rows \in [1..ROWS -> BOOLEAN] :
        /\ sand_buffer = ZeroPlane
        /\ platform_buffer = ZeroPlane
        /\ velocity_buffer = ZeroVelocity
        /\ game = GameIdle
        /\ changed_rows = rows
        /\ frame = ZeroPlane
        /\ marked = <<>>
        /\ op = InitOp
        /\ pre = [sand |-> ZeroPlane, platform |-> ZeroPlane,
                  vel |-> ZeroVelocity, rows |-> rows,
                  frame |-> ZeroPlane, marked |-> <<>>]

FlushStep ==
    /\ op.name = "init"
    /\ marked' = update_screen_efficiently(changed_rows)
    /\ op' = [InitOp EXCEPT !.name = "flush"]
    /\ pre' = Snapshot
    /\ UNCHANGED <<sand_buffer, platform_buffer, velocity_buffer, game,
                   changed_rows, frame>>

NextDirty == FlushStep

SpecDirty == InitDirty /\ [][NextDirty]_vars

(***************************************************************************)
(* SpecCompose: copy_to_frame on sampled buffers of equal and of unequal   *)
(* lengths.                                                                *)
(***************************************************************************)
BufferLens == {BUFFER_SIZE - 1, BUFFER_SIZE, BUFFER_SIZE + 1}
PlaneBytes == {<<0, 0>>, <<165, 90>>, <<255, 16>>}
FrameBytes == {<<0, 0>>, <<60, 195>>}

InitCompose ==
    \E sb \in PlaneBytes, pb \in PlaneBytes, fb \in FrameBytes,
       sl \in BufferLens, pl \in BufferLens, fl \in BufferLens :
        /\ sand_buffer = BufferOf(sb[1], sb[2], sl)
        /\ platform_buffer = BufferOf(pb[2], pb[1], pl)
        /\ velocity_buffer = ZeroVelocity
        /\ game = GameIdle
        /\ changed_rows = NoRows
        /\ frame = BufferOf(fb[1], fb[2], fl)
        /\ marked = <<>>
        /\ op = InitOp
        /\ pre = [sand |-> BufferOf(sb[1], sb[2], sl),
                  platform |-> BufferOf(pb[2], pb[1], pl),
                  vel |-> ZeroVelocity, rows |-> NoRows,
                  frame |-> BufferOf(fb[1], fb[2], fl), marked |-> <<>>]

ComposeStep ==
    /\ op.name = "init"
    /\ frame' = copy_to_frame(sand_buffer, platform_buffer, frame)
    /\ op' = [InitOp EXCEPT !.name = "compose"]
    /\ pre' = Snapshot
    /\ UNCHANGED <<sand_buffer, platform_buffer, velocity_buffer, game,
                   changed_rows, marked>>

NextCompose == ComposeStep

SpecCompose == InitCompose /\ [][NextCompose]_vars

(***************************************************************************)
(* SpecPerf: the simulation passes of a tick (the changed_rows mask, the   *)
(* match on the cached density and the pass loop of process_input) on a    *)
(* lone still particle, for every value of the cached density.             *)
(***************************************************************************)
Densities == 0..100

InitPerf ==
    \E d \in Densities, P \in {{}} \cup {{c} : c \in Cells} :
        /\ sand_buffer = PlaneOf(P)
        /\ platform_buffer = ZeroPlane
        /\ velocity_buffer = ZeroVelocity
        /\ game = [GameIdle EXCEPT !.started = TRUE, !.screen_density = d]
        /\ changed_rows = NoRows
        /\ frame = ZeroPlane
        /\ marked = <<>>
        /\ op = InitOp
        /\ pre = [sand |-> PlaneOf(P), platform |-> ZeroPlane,
                  vel |-> ZeroVelocity, rows |-> NoRows,
                  frame |-> ZeroPlane, marked |-> <<>>]

SimulateStep ==
    /\ op.name = "init"
    /\ \E steps \in {StepsFor(game.screen_density)} :
       \E r \in {RunPasses([sand |-> sand_buffer, vel |-> velocity_buffer, rows |-> NoRows],
                           platform_buffer, steps)} :
          /\ sand_buffer' = r.sand
          /\ velocity_buffer' = r.vel
          /\ changed_rows' = r.rows
          /\ op' = [InitOp EXCEPT !.name = "simulate", !.n = steps]
          /\ pre' = Snapshot
          /\ UNCHANGED <<platform_buffer, game, frame, marked>>

NextPerf == SimulateStep

SpecPerf == InitPerf /\ [][NextPerf]_vars

(***************************************************************************)
(* Spec: the game.  Init is the state FallingSand::new leaves; Tick is     *)
(* one call of FallingSand::update (redraw_platforms, process_input,       *)
(* draw_fps) on the buttons held, the crank's change since the last tick   *)
(* (in tenths of a degree) and the columns the tick's rain draws.          *)
(***************************************************************************)
SAND_BRUSH_SIZE == 5
rain_rate == 6

\* The pixels the display library lights for draw_intro (one at the origin
\* of each text) and for draw_fps.
IntroCells ==
    {<<ScaleX(120), ScaleY(100)>>, <<ScaleX(80), ScaleY(130)>>,
     <<ScaleX(90), ScaleY(160)>>, <<ScaleX(75), ScaleY(180)>>,
     <<ScaleX(95), ScaleY(200)>>}
FpsCells == {<<0, 0>>}

\* The bits of byte index i of a frame that belong to cells of S.
CellBits(S, i) ==
    LET y == i \div COLUMNS
        col == i % COLUMNS
        bit(k) == IF <<col * 8 + k, y>> \in S THEN BIT_MASKS[k + 1] ELSE 0
    IN bit(0) + bit(1) + bit(2) + bit(3) + bit(4) + bit(5) + bit(6) + bit(7)

Lit(fr, S) == [i \in 1..Len(fr) |-> BitOr(fr[i], CellBits(S, i - 1))]

draw_intro(fr) == Lit(fr, IntroCells)
draw_fps(fr) == Lit(fr, FpsCells)

\* The loops of convert_intro_to_sand from cell number n on (row by row).
RECURSIVE ConvertFrom(_, _, _)
ConvertFrom(fr, sbuf, n) ==
    IF n >= PIXEL_WIDTH * ROWS THEN sbuf
    ELSE LET x == n % PIXEL_WIDTH
             y == n \div PIXEL_WIDTH
             byte_index == y * COLUMNS + (x \div 8)
         IN CHOOSE r \in {ConvertFrom(fr, nb, n + 1) :
                nb \in {IF byte_index < Len(fr)
                           /\ BitAnd(fr[byte_index + 1], BIT_MASKS[(x % 8) + 1]) # 0
                        THEN set_pixel(sbuf, x, y, TRUE) ELSE sbuf}} : TRUE

convert_intro_to_sand(fr, sbuf) == ConvertFrom(fr, sbuf, 0)

\* set_pixel(sand_buffer, x, 0, true) for the columns the rain draws.
RECURSIVE Rain(_, _)
Rain(sbuf, columns) ==
    IF columns = {} THEN sbuf
    ELSE LET x == CHOOSE x \in columns : TRUE IN
         set_pixel(Rain(sbuf, columns \ {x}), x, 0, TRUE)

\* The brush of the A button: the i and j loops from step n = i * size + j.
RECURSIVE Brush(_, _, _, _)
Brush(sbuf, position_x, position_y, n) ==
    IF n >= SAND_BRUSH_SIZE * SAND_BRUSH_SIZE THEN sbuf
    ELSE LET half_size == SAND_BRUSH_SIZE \div 2
             x == position_x + (n \div SAND_BRUSH_SIZE) - half_size
             y == position_y + (n % SAND_BRUSH_SIZE) - half_size
         IN CHOOSE r \in {Brush(nb, position_x, position_y, n + 1) :
                nb \in {IF x < PIXEL_WIDTH /\ y < ROWS
                        THEN set_pixel(sbuf, x, y, TRUE) ELSE sbuf}} : TRUE

\* Sampled inputs of a tick.
ButtonSamples == {{}, {"a"}, {"b"}, {"left"}, {"right"}, {"up"}, {"down"}}
CrankSamples == {0, 5, 200, -200}
RainSamples == {{0}, {1, PIXEL_WIDTH - 1}, 0..(PIXEL_WIDTH - 1)}

\* Sampled results of create_initial_platforms: anchors in
\* [50, PIXEL_WIDTH - 50) x [30, ROWS - 50), scaled, and angles.
AnchorSamples ==
    {c \in {<<ScaleX(50), ScaleY(30)>>, <<ScaleX(300), ScaleY(150)>>} :
        /\ c[1] >= ScaleX(50) /\ c[1] < ScaleX(SourceColumns - 50)
        /\ c[2] >= ScaleY(30) /\ c[2] < ScaleY(SourceRows - 50)}
AngleSamples == {45, 315}

PlatformSamples ==
    {PlatformNew(c[1], c[2], a) : c \in AnchorSamples, a \in AngleSamples}

Init ==
    \E platforms \in [1..NumPlatforms -> PlatformSamples] :
        LET pb == redraw_platforms(ZeroPlane, platforms)
            fr == draw_intro(copy_to_frame(ZeroPlane, pb, ZeroPlane))
        IN /\ sand_buffer = ZeroPlane
           /\ platform_buffer = pb
           /\ velocity_buffer = ZeroVelocity
           /\ game = [GameIdle EXCEPT !.platforms = platforms]
           /\ changed_rows = NoRows
           /\ frame = fr
           /\ marked = <<>>
           /\ op = InitOp
           /\ pre = [sand |-> ZeroPlane, platform |-> pb, vel |-> ZeroVelocity,
                     rows |-> NoRows, frame |-> fr, marked |-> <<>>]

\* The cells whose velocity differs between two fields.
Differing(v1, v2) ==
    {c \in Cells : get_velocity(v1, c[1], c[2]) # get_velocity(v2, c[1], c[2])}

\* The particle plane after the input steps of process_input: the intro
\* conversion on the first button press, the rain, the brush.
SandAfterInput(buttons, rain) ==
    LET started == game.started \/ buttons # {}
        s1 == IF buttons # {} /\ ~game.started
              THEN convert_intro_to_sand(frame, sand_buffer) ELSE sand_buffer
        s2 == IF started THEN Rain(s1, rain) ELSE s1
    IN IF "a" \in buttons
       THEN Brush(s2, game.position_x, game.position_y, 0) ELSE s2

\* The arrow keys of process_input on a grid of width x height cells: the
\* cursor <<position_x, position_y>> after them.
CursorAfterUnguarded(position_x, position_y, buttons, width, height) ==
    LET x1 == IF "left" \in buttons THEN position_x - 5 ELSE position_x
        x2 == IF "right" \in buttons THEN x1 + 5 ELSE x1
        y1 == IF "up" \in buttons THEN position_y - 5 ELSE position_y
        y2 == IF "down" \in buttons THEN y1 + 5 ELSE y1
    IN <<x2, y2>>

CursorAfter(position_x, position_y, buttons, width, height) ==
    LET x1 == IF "left" \in buttons /\ position_x > SAND_BRUSH_SIZE
              THEN position_x - 5 ELSE position_x
        x2 == IF "right" \in buttons /\ x1 < width - SAND_BRUSH_SIZE
              THEN x1 + 5 ELSE x1
        y1 == IF "up" \in buttons /\ position_y > SAND_BRUSH_SIZE
              THEN position_y - 5 ELSE position_y
        y2 == IF "down" \in buttons /\ y1 < height - SAND_BRUSH_SIZE
              THEN y1 + 5 ELSE y1
    IN <<x2, y2>>

\* The game after the input steps of process_input: started, the rotation
\* of the crank, the cursor.
GameAfterInput(buttons, crank_change) ==
    LET angle_delta == TruncDiv(crank_change, 20)
        cursor == CursorAfter(game.position_x, game.position_y, buttons,
                              PIXEL_WIDTH, ROWS)
    IN [game EXCEPT !.started = game.started \/ buttons # {},
                    !.platforms = IF Abs(crank_change) > 3
                                  THEN [i \in 1..Len(game.platforms) |->
                                           update_angle(game.platforms[i], angle_delta)]
                                  ELSE game.platforms,
                    !.position_x = cursor[1], !.position_y = cursor[2]]

\* The obstacle plane of a tick: FallingSand::update redraws it from the
\* platforms as they are when it is called, before process_input reads the
\* crank.
ObstaclesAfterInput(buttons, crank_change) ==
    redraw_platforms(platform_buffer, GameAfterInput(buttons, crank_change).platforms)

ObstaclesOfTick(buttons, crank_change) ==
    redraw_platforms(platform_buffer, game.platforms)

\* The cached density of a simulated tick: sampled from the particle plane
\* when the frame counter is a multiple of 16, kept otherwise.
DensityEveryTick(sbuf) == calculate_screen_density(sbuf)

DensityOfTick(sbuf) ==
    IF game.frame_counter % 16 = 0
    THEN calculate_screen_density(sbuf)
    ELSE game.screen_density

\* One tick.  (Each intermediate result is bound as the element of a
\* one-element set, so that it is computed once.)
Tick(buttons, crank_change, rain) ==
    \E pb \in {ObstaclesOfTick(buttons, crank_change)},
       s3 \in {SandAfterInput(buttons, rain)},
       g1 \in {GameAfterInput(buttons, crank_change)} :
    LET thisOp == [InitOp EXCEPT !.name = "update", !.n = op.n + 1,
                                 !.x = crank_change,
                                 !.value = Abs(crank_change) > 3,
                                 !.clear = "b" \in buttons]
    IN
    \* FallingSand::update: the obstacle plane is redrawn first
    /\ platform_buffer' = pb
    /\ pre' = Snapshot
    /\ IF "b" \in buttons
       THEN \* clear: the tick ends here
            /\ sand_buffer' = clear_buffer(s3)
            /\ velocity_buffer' = clear_velocity_buffer(velocity_buffer)
            /\ frame' = draw_fps(IF ~g1.started
                                 THEN draw_intro([i \in 1..Len(frame) |-> 0])
                                 ELSE [i \in 1..Len(frame) |-> 0])
            /\ marked' = << <<0, LCD_ROWS>> >>
            /\ game' = [g1 EXCEPT !.screen_density = 0]
            /\ changed_rows' = NoRows
            /\ op' = thisOp
       ELSE IF ~g1.started
       THEN \* intro screen: no simulation
            /\ sand_buffer' = s3
            /\ frame' = draw_fps(draw_intro(copy_to_frame(s3, pb, frame)))
            /\ marked' = <<>>
            /\ game' = g1
            /\ changed_rows' = NoRows
            /\ op' = thisOp
            /\ UNCHANGED velocity_buffer
       ELSE \E density \in {DensityOfTick(s3)},
               v1 \in {apply_platform_forces(s3, velocity_buffer, g1.platforms)} :
            \E r \in {RunPasses([sand |-> s3, vel |-> v1, rows |-> NoRows], pb,
                                StepsFor(density))} :
               /\ sand_buffer' = r.sand
               /\ velocity_buffer' = r.vel
               /\ changed_rows' = r.rows
               /\ frame' = draw_fps(copy_to_frame(r.sand, pb, frame))
               /\ marked' = update_screen_efficiently(r.rows)
               /\ game' = [g1 EXCEPT !.screen_density = density,
                                     !.frame_counter = game.frame_counter + 1]
               /\ op' = [thisOp EXCEPT !.ret = TRUE,
                                       !.steps = StepsFor(density),
                                       !.forced = Differing(velocity_buffer, v1)]

\* A tick of the bounded run, on a rain the tick can draw.
Update(buttons, crank_change, rain) ==
    /\ op.n < MaxTicks
    /\ Cardinality(rain) <= rain_rate
    /\ Tick(buttons, crank_change, rain)

Next ==
    \E buttons \in ButtonSamples, crank_change \in CrankSamples, rain \in RainSamples :
        Update(buttons, crank_change, rain)

Spec == Init /\ [][Next]_vars

(***************************************************************************)
(* SpecForce: apply_platform_forces on one platform, at rest or just       *)
(* rotated by +10 degrees, over sampled particles.  The function takes any *)
(* platform: the anchors are those of the game and the corner of the grid, *)
(* from which the far cells of the grid lie at the rim of the force        *)
(* radius, as cells of the 400 x 240 grid do around every platform.        *)
(***************************************************************************)
ForceAnchors == AnchorSamples \cup {<<0, 0>>}
ForceAngles == AngleSamples \cup {0}
ForceRotations == {0, 10}

\* The particles lie in the three bottom rows, at every distance from the
\* sampled lines.
ForceParticles == ParticleSets

InitForce ==
    \E P \in ForceParticles, c \in ForceAnchors, a \in ForceAngles,
       rotation \in ForceRotations, v \in {VelStill, VelLeft} :
        LET platform == update_angle(PlatformNew(c[1], c[2], (a + 360 - rotation) % 360),
                                     rotation)
            vb == FieldAt(P, [q \in P |-> v])
        IN /\ sand_buffer = PlaneOf(P)
           /\ platform_buffer = ZeroPlane
           /\ velocity_buffer = vb
           /\ game = [GameIdle EXCEPT !.platforms = <<platform>>]
           /\ changed_rows = NoRows
           /\ frame = ZeroPlane
           /\ marked = <<>>
           /\ op = InitOp
           /\ pre = [sand |-> PlaneOf(P), platform |-> ZeroPlane, vel |-> vb,
                     rows |-> NoRows, frame |-> ZeroPlane, marked |-> <<>>]

ForceStep ==
    /\ op.name = "init"
    /\ \E v1 \in {apply_platform_forces(sand_buffer, velocity_buffer, game.platforms)} :
          /\ velocity_buffer' = v1
          /\ op' = [InitOp EXCEPT !.name = "force",
                                  !.forced = Differing(velocity_buffer, v1)]
          /\ pre' = Snapshot
          /\ UNCHANGED <<sand_buffer, platform_buffer, game, changed_rows,
                         frame, marked>>

NextForce == ForceStep

SpecForce == InitForce /\ [][NextForce]_vars

(***************************************************************************)
(* SpecAngle: a platform of any angle is turned by update_angle and its    *)
(* rotation_delta is read, as apply_platform_forces reads it.              *)
(***************************************************************************)
AllAngles == 0..359

\* The angle_delta of a tick: half the crank change, cast to i32 (the cast
\* of a float saturates at the ends of the i32 range).
RotationSamples ==
    (-180..180) \cup {-720, -541, -360, 360, 541, 720}
                \cup {I32Min, I32Min + 1, I32Max - 359, I32Max - 1, I32Max}

InitAngle ==
    \E c \in AnchorSamples, a \in AllAngles :
        /\ sand_buffer = ZeroPlane
        /\ platform_buffer = ZeroPlane
        /\ velocity_buffer = ZeroVelocity
        /\ game = [GameIdle EXCEPT !.platforms = <<PlatformNew(c[1], c[2], a)>>]
        /\ changed_rows = NoRows
        /\ frame = ZeroPlane
        /\ marked = <<>>
        /\ op = InitOp
        /\ pre = [sand |-> ZeroPlane, platform |-> ZeroPlane, vel |-> ZeroVelocity,
                  rows |-> NoRows, frame |-> ZeroPlane, marked |-> <<>>]

RotateStep(delta) ==
    /\ op.name = "init"
    /\ game' = [game EXCEPT !.platforms = <<update_angle(game.platforms[1], delta)>>]
    /\ op' = [InitOp EXCEPT !.name = "update_angle", !.x = delta,
                            !.y = game.platforms[1].angle]
    /\ UNCHANGED <<sand_buffer, platform_buffer, velocity_buffer, changed_rows,
                   frame, marked, pre>>

DeltaStep ==
    /\ op.name = "update_angle"
    /\ op' = [InitOp EXCEPT !.name = "rotation_delta",
                            !.x = rotation_delta(game.platforms[1])]
    /\ UNCHANGED <<sand_buffer, platform_buffer, velocity_buffer, game,
                   changed_rows, frame, marked, pre>>

NextAngle ==
    \/ \E delta \in RotationSamples : RotateStep(delta)
    \/ DeltaStep

SpecAngle == InitAngle /\ [][NextAngle]_vars

(***************************************************************************)
(* SpecCursor: the cursor and the brush on the grid of the source, 400     *)
(* columns by 240 rows (the step of the cursor and the size of the brush   *)
(* are those of the source, so this specification does not scale them).    *)
(***************************************************************************)
\* The coordinates the A button computes: position + i - half_size, for i
\* and j in 0..SAND_BRUSH_SIZE.  A negative value stands for an underflow
\* of the usize.
BrushCells(position_x, position_y) ==
    LET half_size == SAND_BRUSH_SIZE \div 2 IN
    {<<position_x + i - half_size, position_y + j - half_size>> :
        i \in 0..(SAND_BRUSH_SIZE - 1), j \in 0..(SAND_BRUSH_SIZE - 1)}

\* The cells the brush sets: an underflown coordinate fails x < PIXEL_WIDTH
\* && y < ROWS (or the addition panics), so the cell is not set.
BrushPlaced(position_x, position_y) ==
    {c \in BrushCells(position_x, position_y) :
        /\ c[1] >= 0 /\ c[1] < SourceColumns
        /\ c[2] >= 0 /\ c[2] < SourceRows}

CursorButtons == SUBSET {"a", "left", "right", "up", "down"}

InitCursor ==
    /\ sand_buffer = ZeroPlane
    /\ platform_buffer = ZeroPlane
    /\ velocity_buffer = ZeroVelocity
    /\ game = [GameIdle EXCEPT !.position_x = SourceColumns \div 2,
                               !.position_y = SourceRows \div 4]
    /\ changed_rows = NoRows
    /\ frame = ZeroPlane
    /\ marked = <<>>
    /\ op = InitOp
    /\ pre = [sand |-> ZeroPlane, platform |-> ZeroPlane, vel |-> ZeroVelocity,
              rows |-> NoRows, frame |-> ZeroPlane, marked |-> <<>>]

\* The brush and the arrow keys of one tick: op keeps the position the
\* brush was placed at and the cells it set.
CursorStep(buttons) ==
    /\ buttons # {}
    /\ \E cursor \in {CursorAfter(game.position_x, game.position_y, buttons,
                                   SourceColumns, SourceRows)} :
          game' = [game EXCEPT !.started = TRUE,
                               !.position_x = cursor[1], !.position_y = cursor[2]]
    /\ op' = [InitOp EXCEPT !.name = IF "a" \in buttons THEN "brush" ELSE "move",
                            !.x = game.position_x, !.y = game.position_y,
                            !.forced = IF "a" \in buttons
                                       THEN BrushPlaced(game.position_x, game.position_y)
                                       ELSE {}]
    /\ UNCHANGED <<sand_buffer, platform_buffer, velocity_buffer, changed_rows,
                   frame, marked, pre>>

NextCursor == \E buttons \in CursorButtons : CursorStep(buttons)

SpecCursor == InitCursor /\ [][NextCursor]_vars

(***************************************************************************)
(* SpecCadence: one tick of the game from a new game or from a started     *)
(* game whose frame counter lies around the multiples of 16.  The cached   *)
(* density of a started game is 0 (after a clear, or sampled from an empty *)
(* top) or a value a plane of at least that many particles was sampled at. *)
(***************************************************************************)
FrameSamples == {0, 1, 15, 16, 17, 32}

\* The least and the greatest density a plane of k particles can have been
\* sampled at: none or all of them in the sampled bytes.
DensitiesOf(k) ==
    {Min((n * 100) \div ((BUFFER_SIZE \div 8) * 8), 100) :
        n \in {0, Min(k, 8 * ((BUFFER_SIZE + 7) \div 8))}}

CadencePlanes ==
    {{}, {<<0, ROWS - 1>>},
     {<<x, y>> : x \in 0..(PIXEL_WIDTH - 1), y \in (ROWS - 2)..(ROWS - 1)},
     {<<x, 0>> : x \in 0..(PIXEL_WIDTH - 1)}}

CadenceCranks == {0, 200}

InitCadence ==
    \/ Init
    \/ \E platforms \in [1..NumPlatforms -> PlatformSamples],
          P \in CadencePlanes, frame_counter \in FrameSamples :
       \E screen_density \in DensitiesOf(Cardinality(P)) :
          LET pb == redraw_platforms(ZeroPlane, platforms)
              sb == PlaneOf(P)
              fr == draw_fps(copy_to_frame(sb, pb, ZeroPlane))
          IN /\ sand_buffer = sb
             /\ platform_buffer = pb
             /\ velocity_buffer = ZeroVelocity
             /\ game = [GameIdle EXCEPT !.platforms = platforms,
                                        !.started = TRUE,
                                        !.frame_counter = frame_counter,
                                        !.screen_density = screen_density]
             /\ changed_rows = NoRows
             /\ frame = fr
             /\ marked = <<>>
             /\ op = InitOp
             /\ pre = [sand |-> sb, platform |-> pb, vel |-> ZeroVelocity,
                       rows |-> NoRows, frame |-> fr, marked |-> <<>>]

CadenceStep(buttons, crank_change, rain) ==
    /\ op.name = "init"
    /\ Cardinality(rain) <= rain_rate
    /\ Tick(buttons, crank_change, rain)

NextCadence ==
    \E buttons \in ButtonSamples, crank_change \in CadenceCranks, rain \in RainSamples :
        CadenceStep(buttons, crank_change, rain)

SpecCadence == InitCadence /\ [][NextCadence]_vars

(***************************************************************************)
(* SpecSettle: automaton passes repeated without end over the sampled      *)
(* planes and per-particle velocities, and nothing else: no input, no      *)
(* rain, no force.  The game loop calls update on every frame, and a       *)
(* started game runs at least one pass per update: a pass that would       *)
(* change the state is eventually run.                                     *)
(***************************************************************************)
VelFast == [vx |-> 20, vy |-> -20]
SettleVels == VelSamples \cup {VelFast}

InitSettle ==
    \E P \in ParticleSets, O \in ObstacleSets :
        \E f \in [P -> SettleVels] :
            /\ sand_buffer = PlaneOf(P)
            /\ platform_buffer = PlaneOf(O)
            /\ velocity_buffer = FieldAt(P, f)
            /\ game = GameIdle
            /\ changed_rows = NoRows
            /\ frame = ZeroPlane
            /\ marked = <<>>
            /\ op = InitOp
            /\ pre = [sand |-> PlaneOf(P), platform |-> PlaneOf(O),
                      vel |-> FieldAt(P, f), rows |-> NoRows,
                      frame |-> ZeroPlane, marked |-> <<>>]

SettleStep ==
    \E r \in {update_sand_with_velocity(
                 [sand |-> sand_buffer, vel |-> velocity_buffer, rows |-> changed_rows],
                 platform_buffer)} :
       /\ sand_buffer' = r.sand
       /\ velocity_buffer' = r.vel
       /\ changed_rows' = r.rows
       /\ op' = [InitOp EXCEPT !.name = "pass"]
       /\ pre' = Snapshot
       /\ UNCHANGED <<platform_buffer, game, frame, marked>>

NextSettle == SettleStep

SpecSettle == InitSettle /\ [][NextSettle]_vars /\ WF_vars(SettleStep)

(***************************************************************************)
(* Properties.                                                             *)
(***************************************************************************)
\* The number of set bits of a whole buffer, padding included.
RECURSIVE PopCountFrom(_, _)
PopCountFrom(buffer, i) ==
    IF i > Len(buffer) THEN 0
    ELSE count_ones(buffer[i]) + PopCountFrom(buffer, i + 1)

PopCount(buffer) == PopCountFrom(buffer, 1)

\* The in-grid cells whose bit is set.
SetCells(buffer) == {c \in Cells : get_pixel(buffer, c[1], c[2])}

LastRow == ROWS - 1

VelAt(vbuf, x, y) == vbuf[y * PIXEL_WIDTH + x + 1]

Empty(sbuf, pbuf, x, y) == ~get_pixel(sbuf, x, y) /\ ~get_pixel(pbuf, x, y)

\* C1: an automaton pass leaves the number of set bits of the particle
\* plane unchanged, whatever the planes and the velocity field.
C1_PassKeepsBitCount ==
    op.name = "pass" => PopCount(sand_buffer) = PopCount(pre.sand)

\* A pass that relocated a particle while another cell was blocked by an
\* obstacle.
C1_Witness ==
    /\ op.name = "pass"
    /\ sand_buffer # pre.sand
    /\ PopCount(pre.sand) >= 2
    /\ PopCount(platform_buffer) >= 1
    /\ \E c \in SetCells(pre.sand) :
          /\ c[2] < LastRow
          /\ get_pixel(platform_buffer, c[1], c[2] + 1)

GravityTarget(sbuf, pbuf, x, y) ==
    IF Empty(sbuf, pbuf, x, y + 1) THEN <<x, y + 1>>
    ELSE IF x > 0 /\ Empty(sbuf, pbuf, x - 1, y + 1) THEN <<x - 1, y + 1>>
    ELSE IF x < PIXEL_WIDTH - 1 /\ Empty(sbuf, pbuf, x + 1, y + 1) THEN <<x + 1, y + 1>>
    ELSE <<x, y>>

\* C4: evaluating an occupied cell (x, y) above the bottom row with
\* |vx| <= 2 moves its particle straight down if that cell is empty, else
\* down-left, else down-right, else leaves it; no other bit changes.
C4_GravityPriority ==
    (/\ op.name = "cell"
     /\ get_pixel(pre.sand, op.x, op.y)
     /\ op.y < LastRow
     /\ Abs(VelAt(pre.vel, op.x, op.y).vx) <= 2)
    => /\ SetCells(sand_buffer) =
            (SetCells(pre.sand) \ {<<op.x, op.y>>})
                \cup {GravityTarget(pre.sand, pre.platform, op.x, op.y)}
       /\ PopCount(sand_buffer) = PopCount(pre.sand)

\* The second scenario of C4: below and below-left solid, below-right
\* free, and the particle is below-right afterwards.
C4_Witness ==
    /\ op.name = "cell"
    /\ get_pixel(pre.sand, op.x, op.y)
    /\ op.y < LastRow
    /\ op.x > 0
    /\ Abs(VelAt(pre.vel, op.x, op.y).vx) <= 2
    /\ ~Empty(pre.sand, pre.platform, op.x, op.y + 1)
    /\ ~Empty(pre.sand, pre.platform, op.x - 1, op.y + 1)
    /\ Empty(pre.sand, pre.platform, op.x + 1, op.y + 1)
    /\ get_pixel(sand_buffer, op.x + 1, op.y + 1)
    /\ ~get_pixel(sand_buffer, op.x, op.y)

\* Bit k (0 the most significant) of a byte.
BitOf(byte, k) == (byte \div (2 ^ (7 - k))) % 2

InGrid(x, y) == x < PIXEL_WIDTH /\ y < ROWS

\* C5: after set_pixel(x, y, v) at an in-bounds (x, y), get_pixel(x, y) is
\* v and every other bit of the plane, padding included, is unchanged.
C5_SetGetRoundTrip ==
    (op.name = "set_pixel" /\ InGrid(op.x, op.y)) =>
        /\ get_pixel(sand_buffer, op.x, op.y) = op.value
        /\ Len(sand_buffer) = Len(pre.sand)
        /\ \A i \in 1..Len(sand_buffer), k \in 0..7 :
              (i - 1 # op.y * COLUMNS + (op.x \div 8) \/ k # op.x % 8)
              => BitOf(sand_buffer[i], k) = BitOf(pre.sand[i], k)

\* An in-bounds set_pixel that cleared a set bit in a byte with other set
\* bits.
C5_Witness ==
    /\ op.name = "set_pixel"
    /\ InGrid(op.x, op.y)
    /\ ~op.value
    /\ get_pixel(pre.sand, op.x, op.y)
    /\ sand_buffer[op.y * COLUMNS + (op.x \div 8) + 1] # 0

\* C6: at any (x, y) with x >= width or y >= height, get_pixel returns
\* false and set_pixel leaves the whole plane unchanged.
C6_OutOfBoundsNoOp ==
    /\ (op.name = "set_pixel" /\ ~InGrid(op.x, op.y)) => sand_buffer = pre.sand
    /\ (op.name = "get_pixel" /\ ~InGrid(op.x, op.y)) => op.ret = FALSE

\* A set_pixel(x, y, true) whose x lies in the padding of a row of the
\* grid, over a padding bit that was 0 and is 0 afterwards.
C6_Witness ==
    /\ op.name = "set_pixel"
    /\ op.value
    /\ op.x >= PIXEL_WIDTH
    /\ op.x < COLUMNS * 8
    /\ op.y < ROWS
    /\ BitOf(pre.sand[op.y * COLUMNS + (op.x \div 8) + 1], op.x % 8) = 0
    /\ BitOf(sand_buffer[op.y * COLUMNS + (op.x \div 8) + 1], op.x % 8) = 0

\* The mask of the example of C7, rows past the seventh unmarked.
ExampleMask ==
    [i \in 1..ROWS |-> i \in {2, 3, 6}]

\* C7: the intervals forwarded to the display are exactly the maximal runs
\* of marked rows, half-open, in increasing order, disjoint and
\* non-adjacent, a run reaching the last row closed at ROWS.
C7_MaximalRuns ==
    op.name = "flush" =>
        /\ \A i \in 1..Len(marked) :
              LET s == marked[i][1]
                  e == marked[i][2]
              IN /\ 0 <= s /\ s < e /\ e <= ROWS
                 /\ \A y \in s..(e - 1) : changed_rows[y + 1]
                 /\ (s = 0 \/ ~changed_rows[s])
                 /\ (e = ROWS \/ ~changed_rows[e + 1])
        /\ \A i \in 1..(Len(marked) - 1) : marked[i][2] < marked[i + 1][1]
        /\ \A y \in 0..(ROWS - 1) :
              changed_rows[y + 1] =>
                  \E i \in 1..Len(marked) : marked[i][1] <= y /\ y < marked[i][2]
        /\ (ROWS >= 7 /\ changed_rows = ExampleMask) => marked = << <<1, 3>>, <<5, 6>> >>

\* A flush that forwarded two runs, the second reaching the last row.
C7_Witness ==
    /\ op.name = "flush"
    /\ Len(marked) = 2
    /\ marked[1][1] > 0
    /\ marked[2][2] = ROWS
    /\ marked[2][1] < ROWS - 1

\* C8: a pass over an all-zero particle plane, whatever the obstacle plane
\* and the velocity field, leaves the plane all-zero and every dirty-row
\* flag false, and the flush of that mask forwards no interval.
C8_EmptyGridFixedPoint ==
    (op.name = "pass" /\ pre.sand = ZeroPlane /\ pre.rows = NoRows) =>
        /\ sand_buffer = ZeroPlane
        /\ changed_rows = NoRows
        /\ update_screen_efficiently(changed_rows) = <<>>

\* The second pass over an empty plane with an obstacle and a velocity
\* field that is non-zero everywhere.
C8_Witness ==
    /\ op.name = "pass"
    /\ op.n >= 2
    /\ pre.sand = ZeroPlane
    /\ sand_buffer = ZeroPlane
    /\ platform_buffer # ZeroPlane
    /\ \A i \in 1..Len(velocity_buffer) : Abs(velocity_buffer[i].vx) > 2

\* C10: copy_to_frame writes particle[i] OR obstacle[i] to every byte below
\* the shortest of BUFFER_SIZE and the three lengths, leaves the other
\* bytes of the frame as they were and modifies neither input plane.
C10_FrameIsOr ==
    op.name = "compose" =>
        LET n == Min(Min(BUFFER_SIZE, Len(pre.frame)),
                     Min(Len(pre.sand), Len(pre.platform)))
        IN /\ Len(frame) = Len(pre.frame)
           /\ \A i \in 1..Len(frame) :
                 IF i <= n
                 THEN \A k \in 0..7 :
                         BitOf(frame[i], k) = 1 <=>
                             (BitOf(pre.sand[i], k) = 1 \/ BitOf(pre.platform[i], k) = 1)
                 ELSE frame[i] = pre.frame[i]
           /\ sand_buffer = pre.sand
           /\ platform_buffer = pre.platform

\* A composition of overlapping non-empty planes into a longer frame whose
\* bytes past the planes' common length are kept.
C10_Witness ==
    /\ op.name = "compose"
    /\ Len(pre.frame) > Len(pre.sand)
    /\ Len(pre.sand) < Len(pre.platform)
    /\ Len(pre.sand) < BUFFER_SIZE
    /\ pre.frame[Len(pre.frame)] # 0
    /\ frame[Len(frame)] = pre.frame[Len(pre.frame)]
    /\ pre.sand[1] # 0 /\ pre.platform[1] # 0
    /\ frame[1] # pre.sand[1] /\ frame[1] # pre.platform[1] /\ frame[1] # pre.frame[1]

\* The (passes, row_skip) the spec's table gives for a density.
TablePasses(d) == IF d <= 25 THEN 3 ELSE IF d <= 75 THEN 2 ELSE 1
TableSkip(d) == IF d <= 50 THEN 1 ELSE IF d <= 75 THEN 2 ELSE 3

\* The row a lone still particle of row y is in after n passes that
\* evaluate only the rows whose index is a multiple of k.
RECURSIVE RowAfter(_, _, _)
RowAfter(y, n, k) ==
    IF n = 0 THEN y
    ELSE RowAfter(IF y % k = 0 /\ y < ROWS - 1 THEN y + 1 ELSE y, n - 1, k)

\* The row of the lone particle of a plane.
LoneRow(buffer) == (CHOOSE c \in SetCells(buffer) : TRUE)[2]

\* C3 as stated: the cached density d selects TablePasses(d) passes, each
\* evaluating only the rows that are multiples of TableSkip(d): (3,1) up to
\* 25, (2,1) up to 50, (2,2) up to 75, (1,3) above.
C3_TableOfTheSpec ==
    op.name = "simulate" =>
        /\ op.n = TablePasses(game.screen_density)
        /\ SetCells(pre.sand) # {} =>
              LoneRow(sand_buffer) =
                  RowAfter(LoneRow(pre.sand), TablePasses(game.screen_density),
                           TableSkip(game.screen_density))

\* C3, amended: a cached density of 0..50 selects 2 passes and one of
\* 51..100 selects 1 pass, and every pass evaluates every row (row_skip 1):
\* the densities 25, 26, 50, 51, 75, 76 give (2,1),(2,1),(2,1),(1,1),(1,1),
\* (1,1), and a lone still particle falls one row per pass until the last
\* row.
C3_StepsOfTheCode ==
    op.name = "simulate" =>
        LET d == game.screen_density IN
        /\ op.n = (IF d <= 50 THEN 2 ELSE 1)
        /\ d \in {25, 26, 50} => op.n = 2
        /\ d \in {51, 75, 76} => op.n = 1
        /\ SetCells(pre.sand) # {} =>
              /\ Cardinality(SetCells(sand_buffer)) = 1
              /\ LoneRow(sand_buffer) = RowAfter(LoneRow(pre.sand), op.n, 1)

\* At density 76 one pass moved a particle of an odd row that is no
\* multiple of 3 down by one row.
C3_Witness ==
    /\ op.name = "simulate"
    /\ game.screen_density = 76
    /\ op.n = 1
    /\ SetCells(pre.sand) # {}
    /\ LoneRow(pre.sand) = 1
    /\ LoneRow(sand_buffer) = 2

\* C9: in a tick in which no rotation input is applied, every platform's
\* rotation delta is 0 and force propagation changes no velocity cell,
\* whatever rotation happened in earlier ticks.
C9_NoRotationNoForce ==
    (op.name = "update" /\ ~op.value) =>
        /\ \A i \in 1..Len(game.platforms) : rotation_delta(game.platforms[i]) = 0
        /\ op.forced = {}

\* Where the loop body of a pass sends the particle of the cell c, on the
\* buffers st: the cell that gains a bit, or c when nothing moves.
BodyTarget(st, pbuf, c) ==
    LET gained == SetCells(SandCell(st, pbuf, c[1], c[2]).sand) \ SetCells(st.sand)
    IN IF gained = {} THEN c ELSE CHOOSE d \in gained : TRUE

PreBuffers == [sand |-> pre.sand, vel |-> pre.vel, rows |-> pre.rows]

\* The pairs <<a, b>> of particles of one row, a left of b, that the loop
\* body would each send into the same empty cell of the planes before the
\* pass.
Contenders ==
    {ab \in SetCells(pre.sand) \X SetCells(pre.sand) :
        /\ ab[1][2] = ab[2][2]
        /\ ab[1][1] < ab[2][1]
        /\ BodyTarget(PreBuffers, pre.platform, ab[1]) # ab[1]
        /\ BodyTarget(PreBuffers, pre.platform, ab[1])
              = BodyTarget(PreBuffers, pre.platform, ab[2])}

\* C11: when the two particles of a plane, both in one row, would each
\* move into the same empty cell, the pass sends the one with the smaller
\* x there and evaluates the other against the plane so updated: the
\* particle plane after the pass is the one after the loop body for the
\* left particle followed by the loop body for the right one, with the
\* contested cell occupied.
C11_SmallerXTakesIt ==
    (op.name = "pass" /\ PopCount(pre.sand) = 2) =>
        \A ab \in Contenders :
            LET afterA == SandCell(PreBuffers, pre.platform, ab[1][1], ab[1][2])
                afterB == SandCell(afterA, pre.platform, ab[2][1], ab[2][2])
            IN /\ get_pixel(sand_buffer,
                            BodyTarget(PreBuffers, pre.platform, ab[1])[1],
                            BodyTarget(PreBuffers, pre.platform, ab[1])[2])
               /\ sand_buffer = afterB.sand

\* The platform of SpecForce, the in-grid points of its line and the
\* squared distance of a cell from a point.
ForcedPlatform == game.platforms[1]
LinePoints == ForcePoints(ForcedPlatform)
DistSq(c, pt) == (c[1] - pt[1]) * (c[1] - pt[1]) + (c[2] - pt[2]) * (c[2] - pt[2])

\* The particles at rest before the call that lie within distance 8 of an
\* in-grid point of the line.
RestingNear ==
    {c \in SetCells(sand_buffer) :
        /\ VelAt(pre.vel, c[1], c[2]) = SandVelocityDefault
        /\ \E k \in 1..Len(LinePoints) :
              DistSq(c, LinePoints[k]) <= force_radius * force_radius}

\* v has no component against the perpendicular (-sin, cos) of the line
\* (times a positive rotation), and both components are in [-20, 20].
AlongPerpendicular(v) ==
    /\ v.vx * (-fast_sin(ForcedPlatform.angle)) >= 0
    /\ v.vy * fast_cos(ForcedPlatform.angle) >= 0
    /\ v.vx >= -20 /\ v.vx <= 20
    /\ v.vy >= -20 /\ v.vy <= 20

ImpulseSize(trig, d) == Abs(trig) * 10 * ((force_radius * force_radius - d) \div 4)

C13_EmptyCellsAtRest ==
    \A c \in Cells :
        ~get_pixel(sand_buffer, c[1], c[2])
            => VelAt(velocity_buffer, c[1], c[2]) = SandVelocityDefault

\* C14, for a plane holding one particle: a pass relocates the particle at
\* most once.  After the pass it is at most one cell away from where it
\* started (in its row, or in one of the three cells below), and when the
\* loop body moves it along the row, it ends the pass in the cell that move
\* took it to.
C14_OneRelocationPerPass ==
    (op.name = "pass" /\ PopCount(pre.sand) = 1) =>
        \A c \in SetCells(pre.sand) : \A d \in SetCells(sand_buffer) :
            /\ Abs(d[1] - c[1]) <= 1
            /\ d[2] \in {c[2], c[2] + 1}
            /\ BodyTarget(PreBuffers, pre.platform, c)[2] = c[2]
                  => d = BodyTarget(PreBuffers, pre.platform, c)

\* C15: after the passes of a tick, the dirty-row mask is true for every
\* row in which a bit of the particle plane differs from its value before
\* the passes: the row a particle left and the row it came to.
C15_ChangedRowsMarked ==
    op.name = "simulate" =>
        \A y \in 0..(ROWS - 1) :
            (\E x \in 0..(PIXEL_WIDTH - 1) :
                get_pixel(sand_buffer, x, y) # get_pixel(pre.sand, x, y))
            => changed_rows[y + 1]

\* C16 as stated: after a tick, the obstacle plane (the one the tick's
\* passes consulted and its frame shows) is the rasterization of the
\* platforms as the tick's rotation input left them.
C16_ObstaclesFollowRotation ==
    op.name = "update" =>
        platform_buffer = redraw_platforms(ZeroPlane, game.platforms)

\* C16, amended: every tick re-rasterizes the obstacle plane before it
\* applies the rotation input, so the obstacle plane of a tick is the
\* rasterization of the platforms as they were when the tick began.
C16_ObstaclesPrecedeRotation ==
    [][platform_buffer' = redraw_platforms(platform_buffer, game.platforms)]_vars

\* A tick that rotated the platforms and ran the passes on an obstacle
\* plane that is not the rasterization of the rotated platforms.
C16_Witness ==
    /\ op.name = "update"
    /\ op.value
    /\ op.ret
    /\ \E i \in 1..Len(game.platforms) :
          game.platforms[i].angle # game.platforms[i].prev_angle
    /\ platform_buffer # redraw_platforms(ZeroPlane, game.platforms)

\* The platform of SpecAngle and the difference of its angles.
TurnedPlatform == game.platforms[1]
AngleDifference == TurnedPlatform.angle - TurnedPlatform.prev_angle

\* C17 as stated: rotation_delta is congruent to angle - prev_angle modulo
\* 360 and lies in (-180, 180]: a half-turn is reported as +180.
C17_HalfOpenRange ==
    op.name = "rotation_delta" =>
        /\ (op.x - AngleDifference) % 360 = 0
        /\ op.x > -180
        /\ op.x <= 180

\* C17, amended: rotation_delta is congruent to angle - prev_angle modulo
\* 360 and lies in [-180, 180]; a half-turn is reported as +180 when
\* angle = prev_angle + 180 and as -180 when angle = prev_angle - 180.
C17_ClosedRange ==
    op.name = "rotation_delta" =>
        /\ (op.x - AngleDifference) % 360 = 0
        /\ op.x >= -180
        /\ op.x <= 180
        /\ AngleDifference = 180 => op.x = 180
        /\ AngleDifference = -180 => op.x = -180

\* A half-turn from prev_angle down to angle, reported as -180.
C17_Witness ==
    /\ op.name = "rotation_delta"
    /\ AngleDifference = -180
    /\ op.x = -180

\* C18, for a plane holding one particle: after a pass, the velocity
\* stored at the cell the particle now occupies is its velocity before the
\* pass times 0.9, truncated: vy whatever the particle did, and vx when it
\* stayed in its column (it stayed, or fell straight down), where no
\* friction and no drift apply.
C18_DecayFollowsParticle ==
    (op.name = "pass" /\ PopCount(pre.sand) = 1) =>
        \A c \in SetCells(pre.sand) : \A d \in SetCells(sand_buffer) :
            LET v == VelAt(pre.vel, c[1], c[2])
                w == VelAt(velocity_buffer, d[1], d[2])
            IN v # SandVelocityDefault =>
                  /\ w.vy = ScaleTrunc(v.vy, 9)
                  /\ d[1] = c[1] => w.vx = ScaleTrunc(v.vx, 9)

\* C19: in every state the game reaches, both components of every cell's
\* velocity lie in [-20, 20] (and so within the range of an i8).
C19_VelocityInRange ==
    \A i \in 1..Len(velocity_buffer) :
        /\ velocity_buffer[i].vx >= -20 /\ velocity_buffer[i].vx <= 20
        /\ velocity_buffer[i].vy >= -20 /\ velocity_buffer[i].vy <= 20

\* A tick whose forces changed velocities and whose passes left a cell
\* with a component at the bound.
C19_Witness ==
    /\ op.name = "update"
    /\ op.forced # {}
    /\ \E i \in 1..Len(velocity_buffer) :
          \/ Abs(velocity_buffer[i].vx) = 20
          \/ Abs(velocity_buffer[i].vy) = 20

\* C20: on the 400 x 240 grid, starting from (width / 2, height / 4), the
\* cursor stays inside the grid whatever arrow keys are pressed, every
\* coordinate position + i - 2 of the 5 x 5 brush is non-negative and
\* inside the grid, and a brush placement sets all 25 cells.
C20_BrushInsideGrid ==
    /\ game.position_x >= 0 /\ game.position_x < SourceColumns
    /\ game.position_y >= 0 /\ game.position_y < SourceRows
    /\ \A c \in BrushCells(game.position_x, game.position_y) :
          /\ c[1] >= 0 /\ c[1] < SourceColumns
          /\ c[2] >= 0 /\ c[2] < SourceRows
    /\ op.name = "brush" =>
          /\ op.forced = BrushCells(op.x, op.y)
          /\ Cardinality(op.forced) = SAND_BRUSH_SIZE * SAND_BRUSH_SIZE

\* The brush placed with the cursor in the top left corner of its range,
\* after arrow keys that the guards refused there.
C20_Witness ==
    /\ op.name = "brush"
    /\ op.x = SAND_BRUSH_SIZE
    /\ op.y = SAND_BRUSH_SIZE
    /\ game.position_x = SAND_BRUSH_SIZE
    /\ game.position_y = SAND_BRUSH_SIZE
    /\ <<SAND_BRUSH_SIZE - 2, SAND_BRUSH_SIZE - 2>> \in op.forced

\* C21: the loop body of a pass moves a particle only into an empty cell
\* of the grid.  The one cell that gains a particle bit had its particle
\* bit and its obstacle bit 0 before the move and no bit outside the grid
\* is set; the cells holding both a particle and an obstacle do not become
\* more, and the obstacle plane is unchanged.
C21_MovesIntoEmpty ==
    op.name = "cell" =>
        /\ platform_buffer = pre.platform
        /\ sand_buffer # pre.sand =>
              LET gained == {c \in Cells : /\ get_pixel(sand_buffer, c[1], c[2])
                                          /\ ~get_pixel(pre.sand, c[1], c[2])}
              IN /\ Cardinality(gained) = 1
                 /\ \A d \in gained : Empty(pre.sand, pre.platform, d[1], d[2])
                 /\ PopCount(sand_buffer) = PopCount(pre.sand)
                 /\ Cardinality({c \in Cells : /\ get_pixel(sand_buffer, c[1], c[2])
                                              /\ get_pixel(pre.platform, c[1], c[2])})
                       <= Cardinality({c \in Cells : /\ get_pixel(pre.sand, c[1], c[2])
                                                    /\ get_pixel(pre.platform, c[1], c[2])})

\* A particle whose way (straight down, or along the row) was barred by an
\* obstacle and that moved into another, empty cell.
C21_Witness ==
    /\ op.name = "cell"
    /\ get_pixel(pre.sand, op.x, op.y)
    /\ ~get_pixel(sand_buffer, op.x, op.y)
    /\ op.y < LastRow
    /\ get_pixel(pre.platform, op.x, op.y + 1)
    /\ \E d \in SetCells(sand_buffer) \ SetCells(pre.sand) :
          Empty(pre.sand, pre.platform, d[1], d[2])

\* C22: the cached density changes only in a tick with clear pressed, which
\* resets it to 0, or in a simulated tick whose frame counter is a multiple
\* of 16, which samples it from the particle plane the passes start from;
\* in every other simulated tick the pass count is the one of the unchanged
\* cached density; and the frame counter advances by one in a simulated
\* tick and in no other tick.
C22_DensityCadence ==
    [][/\ op'.name = "update"
       /\ op'.clear => /\ game'.screen_density = 0
                       /\ ~op'.ret
       /\ (~op'.clear /\ ~op'.ret) => game'.screen_density = game.screen_density
       /\ (op'.ret /\ game.frame_counter % 16 = 0) =>
             /\ \E rain \in RainSamples, buttons \in ButtonSamples :
                   game'.screen_density =
                       calculate_screen_density(SandAfterInput(buttons, rain))
             /\ op'.steps = StepsFor(game'.screen_density)
       /\ (op'.ret /\ game.frame_counter % 16 # 0) =>
             /\ game'.screen_density = game.screen_density
             /\ op'.steps = StepsFor(game.screen_density)
       /\ game'.frame_counter = game.frame_counter + (IF op'.ret THEN 1 ELSE 0)
      ]_vars

\* A simulated tick off the cadence kept a cached density that the plane
\* would not have been sampled at, and chose the pass count from it.
C22_Witness ==
    /\ op.name = "update"
    /\ op.ret
    /\ game.frame_counter % 16 = 0
    /\ game.frame_counter > 0
    /\ game.screen_density > 50
    /\ op.steps = 1
    /\ calculate_screen_density(pre.sand) = 0

\* The residue of an i32 modulo 360, in 0..359.
Mod360(n) == n % 360

\* C23: update_angle, on a platform of angle in 0..359 and any i32 delta,
\* leaves angle in 0..359 and congruent to the old angle plus delta modulo
\* 360, and prev_angle equal to the old angle.
C23_AngleWrap ==
    op.name = "update_angle" =>
        LET platform == game.platforms[1] IN
        /\ platform.angle \in 0..359
        /\ platform.prev_angle = op.y
        /\ platform.angle = Mod360(Mod360(op.y) + Mod360(op.x))

\* The same for the deltas whose sum with the old angle is an i32.
C23_AngleWrapWithoutOverflow ==
    (op.name = "update_angle" /\ op.x <= I32Max - op.y) =>
        LET platform == game.platforms[1] IN
        /\ platform.angle \in 0..359
        /\ platform.prev_angle = op.y
        /\ platform.angle = Mod360(Mod360(op.y) + Mod360(op.x))

\* angle and prev_angle of every platform are in 0..359.
C23_AnglesInRange ==
    \A i \in 1..Len(game.platforms) :
        /\ game.platforms[i].angle \in 0..359
        /\ game.platforms[i].prev_angle \in 0..359

\* C24: at the end of a tick with clear pressed the particle plane is
\* all-zero, every velocity cell is (0,0) and the cached density is 0; no
\* pass has run and the frame counter is the one the tick started with.
C24_ClearWinsTheTick ==
    [][(op'.name = "update" /\ op'.clear) =>
          /\ \A i \in 1..Len(sand_buffer') : sand_buffer'[i] = 0
          /\ \A i \in 1..Len(velocity_buffer') :
                velocity_buffer'[i] = SandVelocityDefault
          /\ game'.screen_density = 0
          /\ ~op'.ret /\ op'.steps = 0
          /\ game'.frame_counter = game.frame_counter
      ]_vars

\* The same without the velocity cells that the clear does not reach: those
\* of index BUFFER_SIZE and more keep their velocity.
C24_ClearReach ==
    [][(op'.name = "update" /\ op'.clear) =>
          /\ \A i \in 1..Len(sand_buffer') : sand_buffer'[i] = 0
          /\ \A i \in 1..Len(velocity_buffer') :
                velocity_buffer'[i] = IF i <= BUFFER_SIZE THEN SandVelocityDefault
                                      ELSE velocity_buffer[i]
          /\ game'.screen_density = 0
          /\ ~op'.ret /\ op'.steps = 0
          /\ game'.frame_counter = game.frame_counter
      ]_vars

\* A pass leaves the planes and the velocities as they are, and every
\* particle has the velocity (0,0).
Settled ==
    LET r == update_sand_with_velocity(
                 [sand |-> sand_buffer, vel |-> velocity_buffer, rows |-> changed_rows],
                 platform_buffer)
    IN /\ r.sand = sand_buffer
       /\ r.vel = velocity_buffer
       /\ \A c \in Cells :
             get_pixel(sand_buffer, c[1], c[2]) =>
                 get_velocity(velocity_buffer, c[1], c[2]) = SandVelocityDefault

\* The rank of a state: the rows the particles can still fall, weighted
\* above the sum of the sizes of the particles' velocity components (each
\* at most 20, so less than RankBase in all).
RankBase == (2 * 20 + 1) * MaxParticles

ParticleRank(vbuf, c) ==
    (ROWS - 1 - c[2]) * RankBase
        + Abs(VelAt(vbuf, c[1], c[2]).vx) + Abs(VelAt(vbuf, c[1], c[2]).vy)

RECURSIVE RankOver(_, _)
RankOver(S, vbuf) ==
    IF S = {} THEN 0
    ELSE LET c == CHOOSE c \in S : TRUE IN
         ParticleRank(vbuf, c) + RankOver(S \ {c}, vbuf)

Rank(sbuf, vbuf) == RankOver(SetCells(sbuf), vbuf)

\* C25: repeated passes, with nothing else acting, reach a state that a
\* further pass leaves unchanged and in which every particle has the
\* velocity (0,0): every pass that changes a plane or a velocity lowers the
\* rank, a natural number, so only finitely many passes change anything;
\* and the state a pass has left unchanged is settled.
C25_Settling ==
    op.name = "pass" =>
        /\ (sand_buffer # pre.sand \/ velocity_buffer # pre.vel) =>
              Rank(sand_buffer, velocity_buffer) < Rank(pre.sand, pre.vel)
        /\ (sand_buffer = pre.sand /\ velocity_buffer = pre.vel) => Settled

\* The pass that brought the last moving velocity to (0,0): the particles
\* did not move in it, and the state it left is settled.
C25_Witness ==
    /\ op.name = "pass"
    /\ Settled
    /\ pre.sand = sand_buffer
    /\ pre.vel # velocity_buffer
    /\ PopCount(sand_buffer) = MaxParticles
====
